---- MODULE Spec2Model ----
(***************************************************************************)
(* Model of physicsLab/circuit/phy_engine.py: the bridge between a         *)
(* physicsLab circuit experiment and the Phy-Engine shared library.        *)
(*                                                                         *)
(* Python objects are object identities (naturals) into a fixed Heap.      *)
(* Exceptions are named after the error taxonomy of the specification:     *)
(*   EmptyCircuit        ValueError("experiment has no elements")          *)
(*   UnsupportedElement  PhyEngineUnsupportedElementError                  *)
(*   MissingProperty     ValueError("... missing property ...")            *)
(*   InvalidPropertyType TypeError("... must be numeric ...")              *)
(*   InvalidProperty     ValueError("Transformer ... must be non-zero")    *)
(*   ArityMismatch       PhyEngineAnalyzeError("... wrong property count") *)
(*   NativeCallFailure   PhyEngineAnalyzeError("... failed")               *)
(*   HandleClosed        PhyEngineAnalyzeError("circuit is closed")        *)
(*   InvalidAnalysisKind ValueError("unknown analyze_type") / TypeError    *)
(*   MissingParameter    ValueError("ac_omega is required ...")            *)
(***************************************************************************)
EXTENDS Integers, Sequences, FiniteSets, TLC

\* ------------------------------------------------------------------ bounds
MaxElems == 3
MaxWires == 2
MaxReportedExtra == 1
MaxCloses == 3

\* ------------------------------------------------------ helper operators
Range(s) == {s[i] : i \in 1..Len(s)}

Min(a, b) == IF a < b THEN a ELSE b

Max(a, b) == IF a > b THEN a ELSE b

\* Python slice s[:n] for n >= 0
Prefix(s, n) == SubSeq(s, 1, Min(n, Len(s)))

InjSeqs(S, n) == {s \in [1..n -> S] : \A i, j \in 1..n : i # j => s[i] # s[j]}

\* ------------------------------------------------------- static tables
\* _ELEMENT_BRANCHES
ELEMENT_BRANCHES == (4 :> 1) @@ (5 :> 1) @@ (6 :> 1) @@ (7 :> 1) @@ (12 :> 1) @@ (14 :> 2) @@ (15 :> 2)

\* _ELEMENT_BRANCHES.get(code, 0)
BranchesOf(code) == IF code \in DOMAIN ELEMENT_BRANCHES THEN ELEMENT_BRANCHES[code] ELSE 0

ELEMENT_PROPS_BadArity ==
    [c \in ({0, 1, 2, 3, 4, 12, 14, 15, 54} \cup (200..209) \cup {211, 212} \cup (220..228)) |->
        IF c \in {1, 2, 3, 4, 12, 14, 200} THEN 1 ELSE IF c = 15 THEN 2 ELSE 0]

ELEMENT_PROPS_With210 ==
    [c \in ({0, 1, 2, 3, 4, 12, 14, 15, 54} \cup (200..212) \cup (220..228)) |->
        IF c \in {1, 2, 3, 4, 12, 14, 200} THEN 1 ELSE IF c = 15 THEN 3 ELSE 0]

\* _ELEMENT_PROPS
ELEMENT_PROPS ==
    [c \in ({0, 1, 2, 3, 4, 12, 14, 15, 54} \cup (200..209) \cup {211, 212} \cup (220..228)) |->
        IF c \in {1, 2, 3, 4, 12, 14, 200} THEN 1 ELSE IF c = 15 THEN 3 ELSE 0]

\* _ELEMENT_PROPS.get(code), -1 standing for None
PropsOf(code) == IF code \in DOMAIN ELEMENT_PROPS THEN ELEMENT_PROPS[code] ELSE -1

\* ------------------------------------------------------------ the heap
\* A property value is None, the Generate placeholder, a number or a string.
PyNone == [t |-> "None", v |-> 0]
PyGenerate == [t |-> "Generate", v |-> 0]
PyStr == [t |-> "str", v |-> 0]
PyNum(n) == [t |-> "num", v |-> n]

\* Property keys (the source uses the Chinese names given in the comments).
K_R == "resistance"        \* "电阻"
K_C == "capacitance"       \* "电容"
K_L == "inductance"        \* "电感"
K_V == "voltage"           \* "电压"
K_SW == "switch"           \* "开关"
K_VP == "input_voltage"    \* "输入电压"
K_VS == "output_voltage"   \* "输出电压"
K_L1 == "inductance1"      \* "电感1"
K_L2 == "inductance2"      \* "电感2"
K_K == "coupling"          \* "耦合系数"

NoProps == [k \in {} |-> PyNone]

\* The component objects an experiment can hold: data["ModelID"],
\* properties and count_all_pins() of each.
Heap ==
    <<  [ModelID |-> "Ground Component", properties |-> NoProps, pins |-> 1],
        [ModelID |-> "Resistor", properties |-> (K_R :> PyNum(7)), pins |-> 2],
        [ModelID |-> "Battery Source", properties |-> (K_V :> PyNum(5)), pins |-> 2],
        [ModelID |-> "Mutual Inductor",
         properties |-> (K_L1 :> PyNum(1)) @@ (K_L2 :> PyNum(2)) @@ (K_K :> PyNum(3)), pins |-> 4],
        [ModelID |-> "Buzzer", properties |-> NoProps, pins |-> 2],
        [ModelID |-> "Resistor", properties |-> (K_R :> PyGenerate), pins |-> 2],
        [ModelID |-> "Logic Input", properties |-> (K_SW :> PyStr), pins |-> 1]  >>

Objs == DOMAIN Heap

\* element.properties.get(key)
PropGet(element, key) ==
    IF key \in DOMAIN Heap[element].properties THEN Heap[element].properties[key] ELSE PyNone

\* -------------------------------------------------- property extraction
OkVal(x) == [err |-> "none", v |-> x]

ErrVal(e) == [err |-> e, v |-> 0]

\* _get_required_float (every heap object has a properties attribute)
GetRequiredFloat(element, key) ==
    LET v == PropGet(element, key) IN
    IF v.t \in {"None", "Generate"} THEN ErrVal("MissingProperty")
    ELSE IF v.t # "num" THEN ErrVal("InvalidPropertyType")
    ELSE OkVal(v.v)

\* _get_required_int01
GetRequiredInt01(element, key) ==
    LET v == PropGet(element, key) IN
    IF v.t \in {"None", "Generate"} THEN ErrVal("MissingProperty")
    ELSE IF v.t # "num" THEN ErrVal("InvalidPropertyType")
    ELSE OkVal(IF v.v # 0 THEN 1 ELSE 0)

ElemOk(code, props) == [err |-> "none", code |-> code, props |-> props]

ElemErr(e) == [err |-> e, code |-> 0, props |-> << >>]

\* one required float property
OneFloat(code, element, key) ==
    LET r == GetRequiredFloat(element, key) IN
    IF r.err # "none" THEN ElemErr(r.err) ELSE ElemOk(code, <<r.v>>)

\* one required 0/1 property
OneInt01(code, element, key) ==
    LET r == GetRequiredInt01(element, key) IN
    IF r.err # "none" THEN ElemErr(r.err) ELSE ElemOk(code, <<r.v>>)

\* codes of the property-less logic elements
LogicCodes ==
    [m \in {"Logic Output", "Or Gate", "Yes Gate", "And Gate", "No Gate", "Xor Gate",
            "Xnor Gate", "Nand Gate", "Nor Gate", "Imp Gate", "Nimp Gate", "Half Adder",
            "Full Adder", "Half Subtractor", "Full Subtractor", "Multiplier", "D Flipflop",
            "T Flipflop", "Real-T Flipflop", "JK Flipflop"} |->
        CASE m = "Logic Output" -> 201
          [] m = "Or Gate" -> 202
          [] m = "Yes Gate" -> 203
          [] m = "And Gate" -> 204
          [] m = "No Gate" -> 205
          [] m = "Xor Gate" -> 206
          [] m = "Xnor Gate" -> 207
          [] m = "Nand Gate" -> 208
          [] m = "Nor Gate" -> 209
          [] m = "Imp Gate" -> 211
          [] m = "Nimp Gate" -> 212
          [] m = "Half Adder" -> 220
          [] m = "Full Adder" -> 221
          [] m = "Half Subtractor" -> 222
          [] m = "Full Subtractor" -> 223
          [] m = "Multiplier" -> 224
          [] m = "D Flipflop" -> 225
          [] m = "T Flipflop" -> 226
          [] m = "Real-T Flipflop" -> 227
          [] OTHER -> 228]

\* the transformer ratio n = Vp / Vs (heap voltages are whole multiples)
TransformerElement(element) ==
    LET vp == GetRequiredFloat(element, K_VP)
        vs == GetRequiredFloat(element, K_VS) IN
    IF vp.err # "none" THEN ElemErr(vp.err)
    ELSE IF vs.err # "none" THEN ElemErr(vs.err)
    ELSE IF vs.v = 0 THEN ElemErr("InvalidProperty")
    ELSE ElemOk(14, <<vp.v \div vs.v>>)

MutualInductorElement(element) ==
    LET l1 == GetRequiredFloat(element, K_L1)
        l2 == GetRequiredFloat(element, K_L2)
        k == GetRequiredFloat(element, K_K) IN
    IF l1.err # "none" THEN ElemErr(l1.err)
    ELSE IF l2.err # "none" THEN ElemErr(l2.err)
    ELSE IF k.err # "none" THEN ElemErr(k.err)
    ELSE ElemOk(15, <<l1.v, l2.v, k.v>>)

ToPhyEngineElementLenient(element) ==
    LET model_id == Heap[element].ModelID IN
    CASE model_id = "Ground Component" -> ElemOk(0, << >>)
      [] model_id = "Resistor" -> OneFloat(1, element, K_R)
      [] model_id = "Basic Capacitor" -> OneFloat(2, element, K_C)
      [] model_id = "Basic Inductor" -> OneFloat(3, element, K_L)
      [] model_id = "Battery Source" -> OneFloat(4, element, K_V)
      [] model_id \in {"Simple Switch", "Push Switch", "Air Switch"} -> OneInt01(12, element, K_SW)
      [] model_id = "Transformer" -> TransformerElement(element)
      [] model_id = "Mutual Inductor" -> MutualInductorElement(element)
      [] model_id = "Rectifier" -> ElemOk(54, << >>)
      [] model_id = "Logic Input" -> OneInt01(200, element, K_SW)
      [] model_id \in DOMAIN LogicCodes -> ElemOk(LogicCodes[model_id], << >>)
      [] OTHER -> ElemOk(0, << >>)

\* _to_phy_engine_element
ToPhyEngineElement(element) ==
    LET model_id == Heap[element].ModelID IN
    CASE model_id = "Ground Component" -> ElemOk(0, << >>)
      [] model_id = "Resistor" -> OneFloat(1, element, K_R)
      [] model_id = "Basic Capacitor" -> OneFloat(2, element, K_C)
      [] model_id = "Basic Inductor" -> OneFloat(3, element, K_L)
      [] model_id = "Battery Source" -> OneFloat(4, element, K_V)
      [] model_id \in {"Simple Switch", "Push Switch", "Air Switch"} -> OneInt01(12, element, K_SW)
      [] model_id = "Transformer" -> TransformerElement(element)
      [] model_id = "Mutual Inductor" -> MutualInductorElement(element)
      [] model_id = "Rectifier" -> ElemOk(54, << >>)
      [] model_id = "Logic Input" -> OneInt01(200, element, K_SW)
      [] model_id \in DOMAIN LogicCodes -> ElemOk(LogicCodes[model_id], << >>)
      [] OTHER -> ElemErr("UnsupportedElement")

\* ------------------------------------------------------ library lookup
\* expanduser().resolve() on the paths the model uses
ResolvePath(p) ==
    CASE p = "~/pe.so" -> "/home/u/pe.so"
      [] p = "pe.so" -> "/cwd/pe.so"
      [] OTHER -> p

\* _default_phyengine_lib_names
DefaultLibNames(sysname) ==
    IF sysname = "Windows" THEN <<"phyengine.dll">>
    ELSE IF sysname = "Darwin" THEN <<"libphyengine.dylib">>
    ELSE <<"libphyengine.so">>

\* _default_phyengine_search_paths
DefaultSearchPaths ==
    <<"pkg/native", "repo/third-parties/Phy-Engine/build", "repo/third-parties/Phy-Engine/src/build",
      "repo/third-parties/Phy-Engine/src/cmake-build-release",
      "repo/third-parties/Phy-Engine/src/cmake-build-debug">>

\* base / name
JoinPath(base, name) == base \o "/" \o name

\* the candidates in the order of the two nested loops
Candidates(sysname) ==
    LET names == DefaultLibNames(sysname)
        nb == Len(DefaultSearchPaths)
        nn == Len(names) IN
    [k \in 1..(nb * nn) |->
        JoinPath(DefaultSearchPaths[((k - 1) \div nn) + 1], names[((k - 1) % nn) + 1])]

PathOk(p) == [err |-> "none", path |-> p]

PathErr(e) == [err |-> e, path |-> ""]

ResolveFallingThrough(explicit_path, env) ==
    LET cands == Candidates(env.sysname)
        hits == {k \in DOMAIN cands : cands[k] \in env.files} IN
    IF explicit_path # "" /\ ResolvePath(explicit_path) \in env.files THEN PathOk(ResolvePath(explicit_path))
    ELSE IF env.PHYSICSLAB_PHYENGINE_LIB # "" /\ ResolvePath(env.PHYSICSLAB_PHYENGINE_LIB) \in env.files
    THEN PathOk(ResolvePath(env.PHYSICSLAB_PHYENGINE_LIB))
    ELSE IF hits = {} THEN PathErr("EngineNotAvailable")
    ELSE PathOk(cands[CHOOSE k \in hits : \A j \in hits : k <= j])

\* resolve_phyengine_library_path; "" stands for None (and for an empty
\* environment variable, which the code treats alike)
ResolveLibraryPath(explicit_path, env) ==
    IF explicit_path # "" THEN
        IF ResolvePath(explicit_path) \notin env.files THEN PathErr("FileNotFoundError")
        ELSE PathOk(ResolvePath(explicit_path))
    ELSE IF env.PHYSICSLAB_PHYENGINE_LIB # "" THEN
        IF ResolvePath(env.PHYSICSLAB_PHYENGINE_LIB) \notin env.files THEN PathErr("FileNotFoundError")
        ELSE PathOk(ResolvePath(env.PHYSICSLAB_PHYENGINE_LIB))
    ELSE
        LET cands == Candidates(env.sysname)
            hits == {k \in DOMAIN cands : cands[k] \in env.files} IN
        IF hits = {} THEN PathErr("EngineNotAvailable")
        ELSE PathOk(cands[CHOOSE k \in hits : \A j \in hits : k <= j])

\* ------------------------------------------------------------ the handle
Unset == -1      \* attribute not assigned yet
NoPtr == 0       \* None / NULL

\* PhyEngineCircuit before __init__ has assigned anything
BlankHandle ==
    [circuit_ptr |-> Unset, vec_pos |-> NoPtr, chunk_pos |-> NoPtr, comp_size |-> 0,
     comp_elements |-> << >>, comp_codes |-> << >>]

\* the attribute defaults __init__ assigns before _create
FreshHandle ==
    [circuit_ptr |-> NoPtr, vec_pos |-> NoPtr, chunk_pos |-> NoPtr, comp_size |-> 0,
     comp_elements |-> << >>, comp_codes |-> << >>]

\* one foreign call: the function, the circuit pointer and the other arguments
Call(fn, ptr, args) == [fn |-> fn, ptr |-> ptr, args |-> args]

\* --------------------------------------------------------------- _create
EmptyNetlist ==
    [err |-> "none", element_codes |-> << >>, properties |-> << >>, comp_elements |-> << >>,
     comp_codes |-> << >>, wires_flat |-> << >>]

AppendTruncating(acc, e, r) ==
    IF r.err # "none" THEN [acc EXCEPT !.err = r.err]
    ELSE IF r.code = 0 THEN [acc EXCEPT !.element_codes = Append(@, r.code)]
    ELSE [acc EXCEPT !.element_codes = Append(@, r.code),
                     !.comp_elements = Append(@, e),
                     !.comp_codes = Append(@, r.code),
                     !.properties = @ \o Prefix(r.props, 1)]

AppendSkippingGround(acc, e, r) ==
    IF r.err # "none" THEN [acc EXCEPT !.err = r.err]
    ELSE IF r.code = 0 THEN acc
    ELSE [acc EXCEPT !.element_codes = Append(@, r.code),
                     !.comp_elements = Append(@, e),
                     !.comp_codes = Append(@, r.code),
                     !.properties = @ \o r.props]

AppendRetainingGround(acc, e, r) ==
    IF r.err # "none" THEN [acc EXCEPT !.err = r.err]
    ELSE [acc EXCEPT !.element_codes = Append(@, r.code),
                     !.comp_elements = Append(@, e),
                     !.comp_codes = Append(@, r.code),
                     !.properties = @ \o r.props]

\* the body of "for e in elements" once _to_phy_engine_element has returned r
AppendElement(acc, e, r) ==
    IF r.err # "none" THEN [acc EXCEPT !.err = r.err]
    ELSE IF r.code = 0 THEN [acc EXCEPT !.element_codes = Append(@, r.code)]
    ELSE IF r.code \notin DOMAIN ELEMENT_PROPS \/ Len(r.props) # ELEMENT_PROPS[r.code] THEN
        [acc EXCEPT !.err = "ArityMismatch",
                    !.element_codes = Append(@, r.code),
                    !.comp_elements = Append(@, e),
                    !.comp_codes = Append(@, r.code)]
    ELSE [acc EXCEPT !.element_codes = Append(@, r.code),
                     !.comp_elements = Append(@, e),
                     !.comp_codes = Append(@, r.code),
                     !.properties = @ \o r.props]

\* one iteration of "for e in elements" (an exception ends the loop)
CreateStep(acc, e) == IF acc.err # "none" THEN acc ELSE AppendElement(acc, e, ToPhyEngineElement(e))

RECURSIVE ConvertElements(_, _)
\* the element loop of _create
ConvertElements(acc, elements) ==
    IF elements = << >> THEN acc
    ELSE ConvertElements(CreateStep(acc, elements[1]), Tail(elements))

Id2IdxRetained(elements, x) ==
    LET hits == {i \in 1..Len(elements) : elements[i] = x} IN
    IF hits = {} THEN -1
    ELSE Cardinality({j \in 1..((CHOOSE i \in hits : \A k \in hits : k <= i) - 1) :
                         ToPhyEngineElement(elements[j]).code # 0})

\* id2idx.get(id(x)): the (0-based) position of x in elements, -1 for None
Id2Idx(elements, x) ==
    LET hits == {i \in 1..Len(elements) : elements[i] = x} IN
    IF hits = {} THEN -1 ELSE (CHOOSE i \in hits : \A j \in hits : j <= i) - 1

WireStepKeepingUnresolved(elements, flat, w) ==
    flat \o <<Id2Idx(elements, w.Source.element_self), w.Source.pin_label,
              Id2Idx(elements, w.Target.element_self), w.Target.pin_label>>

\* one iteration of "for w in self._experiment.Wires"
WireStep(elements, flat, w) ==
    LET s_idx == Id2Idx(elements, w.Source.element_self)
        t_idx == Id2Idx(elements, w.Target.element_self) IN
    IF s_idx = -1 \/ t_idx = -1 THEN flat
    ELSE flat \o <<s_idx, w.Source.pin_label, t_idx, w.Target.pin_label>>

RECURSIVE ConvertWires(_, _, _)
\* the wire loop of _create
ConvertWires(elements, flat, wires) ==
    IF wires = << >> THEN flat
    ELSE ConvertWires(elements, WireStep(elements, flat, wires[1]), Tail(wires))

\* the wire loop of _create, reached when the element loop raised nothing
WithWires(n, experiment) ==
    IF n.err # "none" THEN n
    ELSE [n EXCEPT !.wires_flat = ConvertWires(experiment.Elements, << >>, experiment.Wires)]

BuildNetlistAcceptingEmpty(experiment) ==
    WithWires(ConvertElements(EmptyNetlist, experiment.Elements), experiment)

\* the netlist _create builds before the foreign call
BuildNetlist(experiment) ==
    IF experiment.Elements = << >> THEN [EmptyNetlist EXCEPT !.err = "EmptyCircuit"]
    ELSE WithWires(ConvertElements(EmptyNetlist, experiment.Elements), experiment)

CreateCallCountingQuads(n) ==
    Call("create_circuit", NoPtr,
         [ele_arr |-> n.element_codes, ele_size |-> Len(n.element_codes),
          wire_arr |-> n.wires_flat, wire_size |-> Len(n.wires_flat) \div 4,
          prop_arr |-> IF n.properties = << >> THEN <<0>> ELSE n.properties])

\* the create_circuit call of _create
CreateCall(n) ==
    Call("create_circuit", NoPtr,
         [ele_arr |-> n.element_codes, ele_size |-> Len(n.element_codes),
          wire_arr |-> n.wires_flat, wire_size |-> Len(n.wires_flat),
          prop_arr |-> IF n.properties = << >> THEN <<0>> ELSE n.properties])

StoreCodesUntruncated(h, n, resp) ==
    [circuit_ptr |-> resp.ptr, vec_pos |-> resp.vec_pos, chunk_pos |-> resp.chunk_pos,
     comp_size |-> resp.comp_size,
     comp_elements |-> Prefix(n.comp_elements, resp.comp_size),
     comp_codes |-> n.comp_codes]

StoreUntruncated(h, n, resp) ==
    [circuit_ptr |-> resp.ptr, vec_pos |-> resp.vec_pos, chunk_pos |-> resp.chunk_pos,
     comp_size |-> resp.comp_size, comp_elements |-> n.comp_elements, comp_codes |-> n.comp_codes]

\* the assignments of _create after a non-NULL create_circuit
StoreCircuit(h, n, resp) ==
    [circuit_ptr |-> resp.ptr, vec_pos |-> resp.vec_pos, chunk_pos |-> resp.chunk_pos,
     comp_size |-> resp.comp_size,
     comp_elements |-> Prefix(n.comp_elements, resp.comp_size),
     comp_codes |-> Prefix(n.comp_codes, resp.comp_size)]

\* what an operation hands back: the handle, the exception, the foreign calls
Outcome(h, err, calls) == [h |-> h, err |-> err, calls |-> calls]

\* _create once the netlist n is built: the foreign call and what follows it
CallCreate(h, n, resp) ==
    IF n.err # "none" THEN Outcome(h, n.err, << >>)
    ELSE IF resp.ptr = NoPtr THEN Outcome(h, "NativeCallFailure", <<CreateCall(n)>>)
    ELSE Outcome(StoreCircuit(h, n, resp), "none", <<CreateCall(n)>>)

\* _create; resp is what create_circuit answers
Create(h, experiment, resp) == CallCreate(h, BuildNetlist(experiment), resp)

\* __init__ from _PhyEngineCDLL(...) on, p being the resolved library path
LoadAndCreate(experiment, p, env, resp) ==
    IF p.err # "none" THEN Outcome(BlankHandle, p.err, << >>)
    ELSE IF p.path \notin env.loadable THEN Outcome(BlankHandle, "OSError", << >>)
    ELSE Create(FreshHandle, experiment, resp)

\* PhyEngineCircuit.__init__
InitCircuit(experiment, lib_path, env, resp) ==
    IF experiment.kind = "NotExperiment" THEN Outcome(BlankHandle, "TypeError", << >>)
    ELSE IF experiment.kind # "Circuit" THEN Outcome(BlankHandle, "ExperimentTypeError", << >>)
    ELSE LoadAndCreate(experiment, ResolveLibraryPath(lib_path, env), env, resp)

CloseUnguarded(h) ==
    IF h.circuit_ptr = Unset THEN Outcome(h, "AttributeError", << >>)
    ELSE Outcome([h EXCEPT !.circuit_ptr = NoPtr], "none",
                 <<Call("destroy_circuit", h.circuit_ptr, <<h.vec_pos, h.chunk_pos>>)>>)

CloseKeepingPointer(h) ==
    IF h.circuit_ptr = Unset THEN Outcome(h, "AttributeError", << >>)
    ELSE IF h.circuit_ptr = NoPtr THEN Outcome(h, "none", << >>)
    ELSE Outcome(h, "none", <<Call("destroy_circuit", h.circuit_ptr, <<h.vec_pos, h.chunk_pos>>)>>)

\* PhyEngineCircuit.close
Close(h) ==
    IF h.circuit_ptr = Unset THEN Outcome(h, "AttributeError", << >>)
    ELSE IF h.circuit_ptr = NoPtr THEN Outcome(h, "none", << >>)
    ELSE Outcome([h EXCEPT !.circuit_ptr = NoPtr], "none",
                 <<Call("destroy_circuit", h.circuit_ptr, <<h.vec_pos, h.chunk_pos>>)>>)

\* PhyEngineCircuit.__del__: close with every Exception swallowed
Del(h) == [Close(h) EXCEPT !.err = "none"]

ExitWithoutClose(h) == Outcome(h, "none", << >>)

\* PhyEngineCircuit.__exit__
Exit(h) == Close(h)

\* PhyEngineCircuit.__enter__
Enter(h) == Outcome(h, "none", << >>)

PyListSame(l) == [items |-> l, same |-> TRUE]

\* list(l): a new list object with the items of l
PyList(l) == [items |-> l, same |-> FALSE]

\* the comp_elements property: a copy of the retained list
CompElements(h) == [err |-> "none", value |-> PyList(h.comp_elements).items]

\* --------------------------------------------------------------- analyze
\* _PhyEngineAnalyzeType
OP == 0
DC == 1
AC == 2
ACOP == 3
TR == 4
TROP == 5

\* an analyze_type argument: an int, a str (its characters) or anything else
PyInt(n) == [t |-> "int", v |-> n, s |-> << >>]
PyString(chars) == [t |-> "str", v |-> 0, s |-> chars]
PyOther == [t |-> "other", v |-> 0, s |-> << >>]

IsSpace(c) == c \in {" ", "\t", "\n"}

RECURSIVE LStrip(_)
LStrip(s) == IF s # << >> /\ IsSpace(s[1]) THEN LStrip(Tail(s)) ELSE s

RECURSIVE RStrip(_)
RStrip(s) == IF s # << >> /\ IsSpace(s[Len(s)]) THEN RStrip(SubSeq(s, 1, Len(s) - 1)) ELSE s

\* str.strip()
Strip(s) == RStrip(LStrip(s))

UpperChar(c) ==
    CASE c = "a" -> "A" [] c = "c" -> "C" [] c = "d" -> "D" [] c = "o" -> "O"
      [] c = "p" -> "P" [] c = "r" -> "R" [] c = "t" -> "T" [] c = "x" -> "X"
      [] OTHER -> c

\* str.upper()
Upper(s) == [i \in 1..Len(s) |-> UpperChar(s[i])]

\* _analyze_type_value
AnalyzeTypeValue(analyze_type) ==
    IF analyze_type.t = "int" THEN OkVal(analyze_type.v)
    ELSE IF analyze_type.t # "str" THEN ErrVal("InvalidAnalysisKind")
    ELSE LET s == Upper(Strip(analyze_type.s)) IN
         CASE s = <<"O", "P">> -> OkVal(OP)
           [] s = <<"D", "C">> -> OkVal(DC)
           [] s = <<"A", "C">> -> OkVal(AC)
           [] s = <<"A", "C", "O", "P">> -> OkVal(ACOP)
           [] s = <<"T", "R">> -> OkVal(TR)
           [] s = <<"T", "R", "O", "P">> -> OkVal(TROP)
           [] OTHER -> ErrVal("InvalidAnalysisKind")

\* ctypes.c_uint32(at): at modulo 2^32, as its <<high, low>> 16-bit halves
Uint32(n) ==
    IF n >= 0 THEN <<n \div 65536, n % 65536>>
    ELSE LET m == (n + 2147483647) + 1 IN <<32768 + (m \div 65536), m % 65536>>

RECURSIVE TotalPins(_)
\* the pin-counting loop of analyze
TotalPins(elems) == IF elems = << >> THEN 0 ELSE Heap[elems[1]].pins + TotalPins(Tail(elems))

RECURSIVE TotalBranches(_)
\* sum(_ELEMENT_BRANCHES.get(code, 0) for code in self._comp_codes)
TotalBranches(codes) == IF codes = << >> THEN 0 ELSE BranchesOf(codes[1]) + TotalBranches(Tail(codes))

SampleBuffersUnclamped(h) ==
    LET total_pins == TotalPins(h.comp_elements)
        total_branches == TotalBranches(h.comp_codes) IN
    [voltage |-> Max(1, total_pins), voltage_ord |-> h.comp_size + 1,
     current |-> Max(1, total_branches), current_ord |-> h.comp_size + 1,
     digital |-> Max(1, total_pins), digital_ord |-> h.comp_size + 1]

\* the six buffers analyze allocates (capacities; ctypes zero-fills them)
SampleBuffers(h) ==
    LET total_pins == TotalPins(h.comp_elements)
        total_branches == Max(TotalBranches(h.comp_codes), total_pins) IN
    [voltage |-> Max(1, total_pins), voltage_ord |-> h.comp_size + 1,
     current |-> Max(1, total_branches), current_ord |-> h.comp_size + 1,
     digital |-> Max(1, total_pins), digital_ord |-> h.comp_size + 1]

SliceReversed(buf, lo, hi) ==
    IF lo >= hi THEN [err |-> "none", v |-> << >>]
    ELSE IF hi > Len(buf) THEN [err |-> "IndexError", v |-> << >>]
    ELSE [err |-> "none", v |-> [j \in 1..(hi - lo) |-> buf[hi - j + 1]]]

SliceWithoutLast(buf, lo, hi) ==
    IF lo >= hi THEN [err |-> "none", v |-> << >>]
    ELSE IF hi > Len(buf) THEN [err |-> "IndexError", v |-> << >>]
    ELSE [err |-> "none", v |-> SubSeq(buf, lo + 1, hi - 1)]

\* [buf[j] for j in range(lo, hi)] on a 0-based ctypes array; IndexError past its end
Slice(buf, lo, hi) ==
    IF lo >= hi THEN [err |-> "none", v |-> << >>]
    ELSE IF hi > Len(buf) THEN [err |-> "IndexError", v |-> << >>]
    ELSE [err |-> "none", v |-> SubSeq(buf, lo + 1, hi)]

NoMap == [e \in {} |-> << >>]

NoSample == [elements |-> << >>, pin_voltage |-> NoMap, pin_digital |-> NoMap, branch_current |-> NoMap]

\* the index whose assignment to dict[e] is the last one of the decoding loop
LastIndexOf(elems, e) == CHOOSE i \in 1..Len(elems) : elems[i] = e /\ \A j \in 1..Len(elems) : elems[j] = e => j <= i

\* the decoding loop of analyze: three dicts keyed by the retained elements
Decode(h, out) ==
    LET n == Len(h.comp_elements)
        keys == Range(h.comp_elements)
        v == [i \in 1..n |-> Slice(out.voltage, out.voltage_ord[i], out.voltage_ord[i + 1])]
        d == [i \in 1..n |-> Slice(out.digital, out.digital_ord[i], out.digital_ord[i + 1])]
        c == [i \in 1..n |-> Slice(out.current, out.current_ord[i], out.current_ord[i + 1])] IN
    IF \E i \in 1..n : v[i].err # "none" \/ d[i].err # "none" \/ c[i].err # "none"
    THEN [err |-> "IndexError", sample |-> NoSample]
    ELSE [err |-> "none",
          sample |-> [elements |-> PyList(h.comp_elements).items,
                      pin_voltage |-> [e \in keys |-> v[LastIndexOf(h.comp_elements, e)].v],
                      pin_digital |-> [e \in keys |-> d[LastIndexOf(h.comp_elements, e)].v],
                      branch_current |-> [e \in keys |-> c[LastIndexOf(h.comp_elements, e)].v]]]

\* the circuit_sample call of analyze: the two position buffers, the
\* component count and the lengths of the six buffers in argument order
SampleCall(h) ==
    LET b == SampleBuffers(h) IN
    Call("circuit_sample", h.circuit_ptr,
         <<h.vec_pos, h.chunk_pos, h.comp_size, b.voltage, b.voltage_ord, b.current, b.current_ord,
           b.digital, b.digital_ord>>)

AnalyzeOutcomeDroppingHandle(h, err, calls, sample) ==
    [h |-> IF err = "none" THEN h ELSE [h EXCEPT !.circuit_ptr = NoPtr],
     err |-> err, calls |-> calls, sample |-> sample]

\* what analyze hands back
AnalyzeOutcome(h, err, calls, sample) == [h |-> h, err |-> err, calls |-> calls, sample |-> sample]

\* the return of analyze (or the IndexError of a read past a buffer)
Decoded(h, r, calls0) == AnalyzeOutcome(h, r.err, calls0, r.sample)

RunAndSampleClockLast(h, a, eng, calls0) ==
    LET c1 == Append(calls0, Call("circuit_analyze", h.circuit_ptr, << >>)) IN
    IF eng.status["circuit_analyze"] # 0 THEN AnalyzeOutcome(h, "NativeCallFailure", c1, NoSample)
    ELSE LET c2 == Append(c1, SampleCall(h)) IN
         IF eng.status["circuit_sample"] # 0 THEN AnalyzeOutcome(h, "NativeCallFailure", c2, NoSample)
         ELSE LET c3 == IF a.digital_clk THEN Append(c2, Call("circuit_digital_clk", h.circuit_ptr, << >>))
                        ELSE c2 IN
              IF a.digital_clk /\ eng.status["circuit_digital_clk"] # 0
              THEN AnalyzeOutcome(h, "NativeCallFailure", c3, NoSample)
              ELSE Decoded(h, Decode(h, eng.out), c3)

RunAndSampleIgnoringClock(h, a, eng, calls0) ==
    LET c1 == Append(calls0, Call("circuit_analyze", h.circuit_ptr, << >>)) IN
    IF eng.status["circuit_analyze"] # 0 THEN AnalyzeOutcome(h, "NativeCallFailure", c1, NoSample)
    ELSE LET c2 == IF a.digital_clk THEN Append(c1, Call("circuit_digital_clk", h.circuit_ptr, << >>)) ELSE c1
             c3 == Append(c2, SampleCall(h)) IN
         IF eng.status["circuit_sample"] # 0 THEN AnalyzeOutcome(h, "NativeCallFailure", c3, NoSample)
         ELSE Decoded(h, Decode(h, eng.out), c3)

\* the tail of analyze from circuit_analyze on
RunAndSample(h, a, eng, calls0) ==
    LET c1 == Append(calls0, Call("circuit_analyze", h.circuit_ptr, << >>)) IN
    IF eng.status["circuit_analyze"] # 0 THEN AnalyzeOutcome(h, "NativeCallFailure", c1, NoSample)
    ELSE LET c2 == IF a.digital_clk THEN Append(c1, Call("circuit_digital_clk", h.circuit_ptr, << >>)) ELSE c1 IN
         IF a.digital_clk /\ eng.status["circuit_digital_clk"] # 0
         THEN AnalyzeOutcome(h, "NativeCallFailure", c2, NoSample)
         ELSE LET c3 == Append(c2, SampleCall(h)) IN
              IF eng.status["circuit_sample"] # 0 THEN AnalyzeOutcome(h, "NativeCallFailure", c3, NoSample)
              ELSE Decoded(h, Decode(h, eng.out), c3)

ConfigureAndRunTransientForAC(h, a, eng, at, calls0) ==
    LET tr == at \in {TR, TROP, AC}
        ac == at \in {AC, ACOP}
        c1 == IF tr THEN Append(calls0, Call("circuit_set_tr", h.circuit_ptr, <<a.tr_step, a.tr_stop>>))
              ELSE calls0 IN
    IF tr /\ eng.status["circuit_set_tr"] # 0 THEN AnalyzeOutcome(h, "NativeCallFailure", c1, NoSample)
    ELSE IF ac /\ a.ac_omega.t = "None" THEN AnalyzeOutcome(h, "MissingParameter", c1, NoSample)
    ELSE LET c2 == IF ac THEN Append(c1, Call("circuit_set_ac_omega", h.circuit_ptr, <<a.ac_omega.v>>))
                   ELSE c1 IN
         IF ac /\ eng.status["circuit_set_ac_omega"] # 0
         THEN AnalyzeOutcome(h, "NativeCallFailure", c2, NoSample)
         ELSE RunAndSample(h, a, eng, c2)

ConfigureAndRunWithoutOmega(h, a, eng, at, calls0) ==
    LET tr == at \in {TR, TROP}
        ac == at \in {AC, ACOP} /\ a.ac_omega.t # "None"
        c1 == IF tr THEN Append(calls0, Call("circuit_set_tr", h.circuit_ptr, <<a.tr_step, a.tr_stop>>))
              ELSE calls0 IN
    IF tr /\ eng.status["circuit_set_tr"] # 0 THEN AnalyzeOutcome(h, "NativeCallFailure", c1, NoSample)
    ELSE LET c2 == IF ac THEN Append(c1, Call("circuit_set_ac_omega", h.circuit_ptr, <<a.ac_omega.v>>))
                   ELSE c1 IN
         IF ac /\ eng.status["circuit_set_ac_omega"] # 0
         THEN AnalyzeOutcome(h, "NativeCallFailure", c2, NoSample)
         ELSE RunAndSample(h, a, eng, c2)

\* the kind-specific configuration of analyze, then the rest
ConfigureAndRun(h, a, eng, at, calls0) ==
    LET tr == at \in {TR, TROP}
        ac == at \in {AC, ACOP}
        c1 == IF tr THEN Append(calls0, Call("circuit_set_tr", h.circuit_ptr, <<a.tr_step, a.tr_stop>>))
              ELSE calls0 IN
    IF tr /\ eng.status["circuit_set_tr"] # 0 THEN AnalyzeOutcome(h, "NativeCallFailure", c1, NoSample)
    ELSE IF ac /\ a.ac_omega.t = "None" THEN AnalyzeOutcome(h, "MissingParameter", c1, NoSample)
    ELSE LET c2 == IF ac THEN Append(c1, Call("circuit_set_ac_omega", h.circuit_ptr, <<a.ac_omega.v>>))
                   ELSE c1 IN
         IF ac /\ eng.status["circuit_set_ac_omega"] # 0
         THEN AnalyzeOutcome(h, "NativeCallFailure", c2, NoSample)
         ELSE RunAndSample(h, a, eng, c2)

\* analyze from circuit_set_analyze_type on, at being _analyze_type_value's result
SetTypeAndRun(h, a, eng, at) ==
    IF at.err # "none" THEN AnalyzeOutcome(h, at.err, << >>, NoSample)
    ELSE IF eng.status["circuit_set_analyze_type"] # 0
    THEN AnalyzeOutcome(h, "NativeCallFailure",
                        <<Call("circuit_set_analyze_type", h.circuit_ptr, Uint32(at.v))>>, NoSample)
    ELSE ConfigureAndRun(h, a, eng, at.v,
                         <<Call("circuit_set_analyze_type", h.circuit_ptr, Uint32(at.v))>>)

AnalyzeUnguarded(h, a, eng) == SetTypeAndRun(h, a, eng, AnalyzeTypeValue(a.analyze_type))

\* PhyEngineCircuit.analyze; eng is what the engine answers to each call
Analyze(h, a, eng) ==
    IF h.circuit_ptr = NoPtr THEN AnalyzeOutcome(h, "HandleClosed", << >>, NoSample)
    ELSE SetTypeAndRun(h, a, eng, AnalyzeTypeValue(a.analyze_type))

\* leaving the with block: __exit__ runs, then the result or exception of the body goes on
LeaveScope(r, x, calls0) ==
    AnalyzeOutcome(x.h, IF r.err # "none" THEN r.err ELSE x.err, calls0 \o r.calls \o x.calls, r.sample)

\* the with block once the body has ended with r
ExitScope(r, calls0) == LeaveScope(r, Exit(r.h), calls0)

\* analyze_experiment_with_phy_engine once the constructor has ended with c
ScopedBody(c, a, eng) ==
    IF c.err # "none" THEN AnalyzeOutcome(c.h, c.err, c.calls, NoSample)
    ELSE ExitScope(Analyze(Enter(c.h).h, a, eng), c.calls)

\* the scoped use of a handle: analyze_experiment_with_phy_engine
ScopedAnalyze(experiment, lib_path, env, a, resp, eng) ==
    ScopedBody(InitCircuit(experiment, lib_path, env, resp), a, eng)

\* ------------------------------------------------------------- inputs
\* the wires an experiment may hold
WireChoices ==
    {[Source |-> [element_self |-> 2, pin_label |-> 0], Target |-> [element_self |-> 3, pin_label |-> 1]],
     [Source |-> [element_self |-> 1, pin_label |-> 0], Target |-> [element_self |-> 4, pin_label |-> 2]]}

Experiments ==
    {[kind |-> k, Elements |-> es, Wires |-> ws] :
        k \in {"Circuit", "Celestial", "NotExperiment"},
        es \in UNION {InjSeqs(Objs, n) : n \in 0..MaxElems},
        ws \in UNION {InjSeqs(WireChoices, n) : n \in 0..MaxWires}}

\* the process environment: platform, PHYSICSLAB_PHYENGINE_LIB, the files
\* that exist and those of them ctypes.CDLL can load
Environments ==
    {[sysname |-> "Linux", PHYSICSLAB_PHYENGINE_LIB |-> "", files |-> {}, loadable |-> {}],
     [sysname |-> "Linux", PHYSICSLAB_PHYENGINE_LIB |-> "",
      files |-> {JoinPath("pkg/native", "libphyengine.so")},
      loadable |-> {JoinPath("pkg/native", "libphyengine.so")}],
     [sysname |-> "Linux", PHYSICSLAB_PHYENGINE_LIB |-> "",
      files |-> {JoinPath("pkg/native", "libphyengine.so")}, loadable |-> {}]}

\* the pointers create_circuit may hand out
PtrValues == {41}

VecPosValues == {51}

ChunkPosValues == {61}

\* what create_circuit may answer for an experiment
CreateAnswers(experiment) ==
    {[ptr |-> p, vec_pos |-> v, chunk_pos |-> c, comp_size |-> n] :
        p \in PtrValues \cup {NoPtr}, v \in VecPosValues, c \in ChunkPosValues,
        n \in 0..(Len(experiment.Elements) + MaxReportedExtra)}

AnalyzeTypes ==
    {PyInt(DC), PyInt(7), PyString(<<" ", "t", "r">>), PyString(<<"A", "c", "\n">>),
     PyString(<<"x">>), PyOther}

AnalyzeArgs ==
    {[analyze_type |-> t, tr_step |-> 1, tr_stop |-> 2, ac_omega |-> w, digital_clk |-> k] :
        t \in AnalyzeTypes, w \in {PyNone, PyNum(3)}, k \in BOOLEAN}

ForeignStatusFns ==
    {"circuit_set_analyze_type", "circuit_set_tr", "circuit_set_ac_omega", "circuit_analyze",
     "circuit_digital_clk", "circuit_sample"}

\* the status codes of one analyze: analyze stops at the first non-zero
\* status, so at most one failing call is ever observed
StatusAnswers ==
    {[f \in ForeignStatusFns |-> 0]} \cup
    {[f \in ForeignStatusFns |-> IF f = g THEN 1 ELSE 0] : g \in ForeignStatusFns}

RECURSIVE PinOffsets(_, _, _)
\* cumulative pin counts of the retained elements, padded to n + 1 entries
PinOffsets(elems, n, from) ==
    IF n < 0 THEN << >>
    ELSE <<from>> \o PinOffsets(IF elems = << >> THEN << >> ELSE Tail(elems), n - 1,
                                 IF elems = << >> THEN from ELSE from + Heap[elems[1]].pins)

\* what circuit_sample may write into the buffers of a handle
SampleAnswers(h) ==
    LET b == SampleBuffers(h)
        values == [voltage |-> [j \in 1..b.voltage |-> 100 + j],
                   current |-> [j \in 1..b.current |-> 200 + j],
                   digital |-> [j \in 1..b.digital |-> j % 2 = 1]]
        byPins == PinOffsets(h.comp_elements, h.comp_size, 0)
        zeros == [i \in 1..(h.comp_size + 1) |-> 0] IN
    {[voltage |-> values.voltage, current |-> values.current, digital |-> values.digital,
      voltage_ord |-> o, current_ord |-> o, digital_ord |-> o] : o \in {byPins, zeros}}

\* what the engine may answer during one analyze: the buffers are read only
\* when every call succeeded
EngineAnswers(h) ==
    {[status |-> st, out |-> o] : st \in {[f \in ForeignStatusFns |-> 0]}, o \in SampleAnswers(h)}
    \cup {[status |-> st, out |-> CHOOSE o \in SampleAnswers(h) : TRUE] : st \in StatusAnswers}

\* -------------------------------------------------------- state machine
VARIABLES
    experiment,   \* the _Experiment handed to the constructor
    lib_path,     \* the lib_path argument ("" for None)
    env,          \* the process environment
    h,            \* the attributes of the PhyEngineCircuit object
    phase,        \* "none", "held", "failed", "scoped" (scope left) or "gone"
    lastOp,       \* the operation that ran last
    err,          \* the exception it raised ("none" if it returned)
    calls,        \* the foreign calls it made, in order
    sample,       \* the PhyEngineSample it returned (NoSample if it returned none)
    value,        \* the list it returned, for a comp_elements read
    netlist,      \* the locals of _create when it ended
    created,      \* what create_circuit answered
    destroyed,    \* every destroy_circuit call made so far
    closes,       \* how often close has run (directly, by __exit__ or __del__)
    args,         \* the arguments of the analyze it ran (NoArgs if it ran none)
    replies,      \* the status the engine answered to each of its foreign calls
    out,          \* the buffers as circuit_sample left them (NoOut if it did not succeed)
    shared,       \* the list it returned is the list object the handle holds
    kept,         \* a PhyEngineSample the caller kept from an earlier analyze
    query,        \* the code looked up in the tables (-1 if none)
    pc            \* where each thread stands inside close

vars == <<experiment, lib_path, env, h, phase, lastOp, err, calls, sample, value, netlist, created,
          destroyed, closes, args, replies, out, shared, kept, query, pc>>

\* the threads that may run close on one handle
Threads == {1, 2}

NoQuery == -1

NoArgs == [analyze_type |-> PyOther, tr_step |-> 0, tr_stop |-> 0, ac_omega |-> PyNone, digital_clk |-> FALSE]

NoOut ==
    [voltage |-> << >>, current |-> << >>, digital |-> << >>,
     voltage_ord |-> << >>, current_ord |-> << >>, digital_ord |-> << >>]

\* the status each call of an operation got from the engine (0 for the
\* calls that return no status)
Replies(made, eng) ==
    [i \in 1..Len(made) |-> IF made[i].fn \in ForeignStatusFns THEN eng.status[made[i].fn] ELSE 0]

\* the six buffers after the calls of an operation: written by the engine
\* when one of the calls was a circuit_sample that returned 0
BuffersAfter(made, eng) ==
    IF eng.status["circuit_sample"] = 0 /\ \E i \in 1..Len(made) : made[i].fn = "circuit_sample"
    THEN eng.out ELSE NoOut

\* an analyze seen from outside: its arguments, its outcome r and what the
\* engine answered to the calls it made
Observed(r, a, eng) ==
    [r |-> r, a |-> a, replies |-> Replies(r.calls, eng), out |-> BuffersAfter(r.calls, eng)]

NoAnswer == [ptr |-> NoPtr, vec_pos |-> NoPtr, chunk_pos |-> NoPtr, comp_size |-> 0]

IsDestroy(c) == c.fn = "destroy_circuit"

IsCreate(c) == c.fn = "create_circuit"

\* no operation has run yet
Idle ==
    /\ h = BlankHandle
    /\ phase = "none"
    /\ lastOp = "none"
    /\ err = "none"
    /\ calls = << >>
    /\ sample = NoSample
    /\ value = << >>
    /\ netlist = EmptyNetlist
    /\ created = NoAnswer
    /\ destroyed = << >>
    /\ closes = 0
    /\ args = NoArgs
    /\ replies = << >>
    /\ out = NoOut
    /\ shared = FALSE
    /\ kept = NoSample
    /\ query = NoQuery
    /\ pc = [t \in Threads |-> "idle"]

\* the state before construction
Start == lib_path = "" /\ env \in Environments /\ Idle

\* the life of one handle, over the experiments without wires
Init == experiment \in {x \in Experiments : x.Wires = << >>} /\ Start

\* the builds of all experiments
InitBuild == experiment \in Experiments /\ Start

\* c = PhyEngineCircuit(experiment, lib_path=lib_path)
Construct ==
    /\ phase = "none"
    /\ \E resp \in CreateAnswers(experiment) : \E r \in {InitCircuit(experiment, lib_path, env, resp)} :
        /\ h' = r.h
        /\ err' = r.err
        /\ calls' = r.calls
        /\ phase' = IF r.err = "none" THEN "held" ELSE "failed"
        /\ netlist' = IF r.h.circuit_ptr = Unset THEN EmptyNetlist ELSE BuildNetlist(experiment)
        /\ created' = IF r.calls = << >> THEN NoAnswer ELSE resp
    /\ args' = NoArgs
    /\ replies' = [i \in 1..Len(calls') |-> 0]
    /\ out' = NoOut
    /\ shared' = FALSE
    /\ UNCHANGED <<kept, query, pc>>
    /\ lastOp' = "construct"
    /\ sample' = NoSample
    /\ value' = << >>
    /\ UNCHANGED <<experiment, lib_path, env, destroyed, closes>>

\* c.close()
DoClose ==
    /\ phase \in {"held", "failed"}
    /\ closes < MaxCloses
    /\ \E r \in {Close(h)} :
        /\ h' = r.h
        /\ err' = r.err
        /\ calls' = r.calls
        /\ destroyed' = destroyed \o SelectSeq(r.calls, IsDestroy)
    /\ closes' = closes + 1
    /\ args' = NoArgs
    /\ replies' = [i \in 1..Len(calls') |-> 0]
    /\ out' = NoOut
    /\ shared' = FALSE
    /\ UNCHANGED <<kept, query, pc>>
    /\ lastOp' = "close"
    /\ sample' = NoSample
    /\ value' = << >>
    /\ UNCHANGED <<experiment, lib_path, env, phase, netlist, created>>

\* c.__enter__()
DoEnter ==
    /\ phase = "held"
    /\ \E r \in {Enter(h)} :
        /\ h' = r.h
        /\ err' = r.err
        /\ calls' = r.calls
    /\ args' = NoArgs
    /\ replies' = [i \in 1..Len(calls') |-> 0]
    /\ out' = NoOut
    /\ shared' = FALSE
    /\ UNCHANGED <<kept, query, pc>>
    /\ lastOp' = "enter"
    /\ sample' = NoSample
    /\ value' = << >>
    /\ UNCHANGED <<experiment, lib_path, env, phase, netlist, created, destroyed, closes>>

\* c.__exit__(...)
DoExit ==
    /\ phase = "held"
    /\ closes < MaxCloses
    /\ \E r \in {Exit(h)} :
        /\ h' = r.h
        /\ err' = r.err
        /\ calls' = r.calls
        /\ destroyed' = destroyed \o SelectSeq(r.calls, IsDestroy)
    /\ closes' = closes + 1
    /\ args' = NoArgs
    /\ replies' = [i \in 1..Len(calls') |-> 0]
    /\ out' = NoOut
    /\ shared' = FALSE
    /\ UNCHANGED <<kept, query, pc>>
    /\ lastOp' = "exit"
    /\ sample' = NoSample
    /\ value' = << >>
    /\ UNCHANGED <<experiment, lib_path, env, phase, netlist, created>>

\* the garbage collector runs c.__del__() once nothing refers to c
DoDel ==
    /\ phase \in {"held", "failed", "scoped"}
    /\ \E r \in {Del(h)} :
        /\ h' = r.h
        /\ err' = r.err
        /\ calls' = r.calls
        /\ destroyed' = destroyed \o SelectSeq(r.calls, IsDestroy)
    /\ closes' = closes + 1
    /\ phase' = "gone"
    /\ args' = NoArgs
    /\ replies' = [i \in 1..Len(calls') |-> 0]
    /\ out' = NoOut
    /\ shared' = FALSE
    /\ UNCHANGED <<kept, query, pc>>
    /\ lastOp' = "del"
    /\ sample' = NoSample
    /\ value' = << >>
    /\ UNCHANGED <<experiment, lib_path, env, netlist, created>>

\* c.analyze(...)
DoAnalyze ==
    /\ phase = "held"
    /\ \E o \in {Observed(Analyze(h, a, eng), a, eng) : a \in AnalyzeArgs, eng \in EngineAnswers(h)} :
        /\ h' = o.r.h
        /\ err' = o.r.err
        /\ calls' = o.r.calls
        /\ sample' = o.r.sample
        /\ args' = o.a
        /\ replies' = o.replies
        /\ out' = o.out
        /\ shared' = (o.r.err = "none" /\ PyList(h.comp_elements).same)
    /\ UNCHANGED <<kept, query, pc>>
    /\ lastOp' = "analyze"
    /\ value' = << >>
    /\ UNCHANGED <<experiment, lib_path, env, phase, netlist, created, destroyed, closes>>

\* c.comp_elements
DoCompElements ==
    /\ phase = "held"
    /\ \E r \in {CompElements(h)} :
        /\ err' = r.err
        /\ value' = r.value
        /\ shared' = PyList(h.comp_elements).same
    /\ calls' = << >>
    /\ args' = NoArgs
    /\ replies' = [i \in 1..Len(calls') |-> 0]
    /\ out' = NoOut
    /\ UNCHANGED <<kept, query, pc>>
    /\ lastOp' = "comp_elements"
    /\ sample' = NoSample
    /\ UNCHANGED <<experiment, lib_path, env, h, phase, netlist, created, destroyed, closes>>

\* the arguments and engine answers that matter once the constructor has
\* ended with c: none of them is looked at when it raised
ScopedArgs(c) == IF c.err = "none" THEN AnalyzeArgs ELSE {CHOOSE a \in AnalyzeArgs : TRUE}

ScopedAnswers(c) ==
    IF c.err = "none" THEN EngineAnswers(c.h) ELSE {CHOOSE e \in EngineAnswers(c.h) : TRUE}

\* analyze_experiment_with_phy_engine(experiment, ...)
DoScopedAnalyze ==
    /\ phase = "none"
    /\ \E resp \in CreateAnswers(experiment) : \E c \in {InitCircuit(experiment, lib_path, env, resp)} :
        /\ \E o \in {Observed(ScopedAnalyze(experiment, lib_path, env, a, resp, eng), a, eng) :
                        a \in ScopedArgs(c), eng \in ScopedAnswers(c)} :
            /\ h' = o.r.h
            /\ err' = o.r.err
            /\ calls' = o.r.calls
            /\ sample' = o.r.sample
            /\ destroyed' = destroyed \o SelectSeq(o.r.calls, IsDestroy)
            /\ args' = o.a
            /\ replies' = o.replies
            /\ out' = o.out
        /\ phase' = IF c.err = "none" THEN "scoped" ELSE "failed"
        /\ closes' = IF c.err = "none" THEN closes + 1 ELSE closes
        /\ netlist' = IF c.h.circuit_ptr = Unset THEN EmptyNetlist ELSE BuildNetlist(experiment)
        /\ created' = IF c.calls = << >> THEN NoAnswer ELSE resp
    /\ shared' = FALSE
    /\ UNCHANGED <<kept, query, pc>>
    /\ lastOp' = "scoped"
    /\ value' = << >>
    /\ UNCHANGED <<experiment, lib_path, env>>

Next ==
    \/ Construct
    \/ DoClose
    \/ DoEnter
    \/ DoExit
    \/ DoDel
    \/ DoAnalyze
    \/ DoCompElements
    \/ DoScopedAnalyze

Spec == Init /\ [][Next]_vars

NextBuild == Construct

SpecBuild == InitBuild /\ [][NextBuild]_vars

\* ------------------------------------------------- the library lookup alone
\* the lib_path arguments ("" for None)
ResolveArgs == {"", "~/pe.so", "/opt/gone.so"}

\* the files that may exist
ResolveFiles ==
    {"/home/u/pe.so", "/cwd/pe.so",
     JoinPath(DefaultSearchPaths[1], "libphyengine.so"),
     JoinPath(DefaultSearchPaths[2], "libphyengine.so"),
     JoinPath(DefaultSearchPaths[5], "phyengine.dll")}

ResolveEnvironments ==
    {[sysname |-> n, PHYSICSLAB_PHYENGINE_LIB |-> v, files |-> f, loadable |-> f] :
        n \in {"Linux", "Windows", "Darwin"}, v \in {"", "pe.so", "/opt/gone.so"},
        f \in SUBSET ResolveFiles}

\* a ground, a resistor and a battery
OneCircuit == [kind |-> "Circuit", Elements |-> <<1, 2, 3>>, Wires |-> << >>]

InitResolve == experiment = OneCircuit /\ lib_path \in ResolveArgs /\ env \in ResolveEnvironments /\ Idle

\* resolve_phyengine_library_path(lib_path)
DoResolve ==
    /\ phase = "none"
    /\ lastOp = "none"
    /\ \E r \in {ResolveLibraryPath(lib_path, env)} :
        /\ err' = r.err
        /\ value' = IF r.err = "none" THEN <<r.path>> ELSE << >>
    /\ lastOp' = "resolve"
    /\ UNCHANGED <<experiment, lib_path, env, h, phase, calls, sample, netlist, created, destroyed,
                   closes, args, replies, out, shared, kept, query, pc>>

NextResolve == DoResolve

SpecResolve == InitResolve /\ [][NextResolve]_vars

\* ------------------------------------------------------ the tables alone
MaxCode == 230

InitTable == experiment = OneCircuit /\ Start

\* _ELEMENT_PROPS.get(code) and _ELEMENT_BRANCHES.get(code, 0) of one code
DoLookUp ==
    /\ phase = "none"
    /\ lastOp = "none"
    /\ \E code \in 0..MaxCode :
        /\ query' = code
        /\ value' = <<PropsOf(code), BranchesOf(code)>>
    /\ lastOp' = "lookup"
    /\ UNCHANGED <<experiment, lib_path, env, h, phase, err, calls, sample, netlist, created,
                   destroyed, closes, args, replies, out, shared, kept, pc>>

\* _to_phy_engine_element(e) of one component
DoConvert ==
    /\ phase = "none"
    /\ lastOp = "none"
    /\ \E e \in Objs : \E r \in {ToPhyEngineElement(e)} :
        /\ err' = r.err
        /\ value' = IF r.err = "none" THEN <<e, r.code, Len(r.props)>> ELSE <<e>>
    /\ lastOp' = "convert"
    /\ UNCHANGED <<experiment, lib_path, env, h, phase, calls, sample, netlist, created, destroyed,
                   closes, args, replies, out, shared, kept, query, pc>>

NextTable == DoLookUp \/ DoConvert

SpecTable == InitTable /\ [][NextTable]_vars

\* ------------------------------------------- what the caller does with results
AliasExperiments ==
    {[kind |-> "Circuit", Elements |-> es, Wires |-> << >>] : es \in {<<1, 2, 3>>, <<4>>}}

InitAlias ==
    /\ experiment \in AliasExperiments
    /\ lib_path = ""
    /\ env \in {e \in Environments : e.loadable # {}}
    /\ Idle

\* kept = sample: the caller keeps the sample the last analyze returned
DoKeepSample ==
    /\ lastOp = "analyze"
    /\ sample # NoSample
    /\ kept = NoSample
    /\ kept' = sample
    /\ UNCHANGED <<experiment, lib_path, env, h, phase, lastOp, err, calls, sample, value, netlist,
                   created, destroyed, closes, args, replies, out, shared, query, pc>>

\* the caller empties the list it was just handed (c.comp_elements.clear()
\* or sample.elements.clear()): the handle's list is emptied with it when
\* both are one object
DoMutateReturned ==
    /\ \/ lastOp = "comp_elements" /\ err = "none" /\ value # << >>
       \/ lastOp = "analyze" /\ sample # NoSample /\ sample.elements # << >>
    /\ value' = << >>
    /\ sample' = IF lastOp = "analyze" THEN [sample EXCEPT !.elements = << >>] ELSE sample
    /\ kept' = IF lastOp = "analyze" /\ kept = sample THEN [sample EXCEPT !.elements = << >>] ELSE kept
    /\ h' = IF shared THEN [h EXCEPT !.comp_elements = << >>] ELSE h
    /\ lastOp' = "mutate"
    /\ UNCHANGED <<experiment, lib_path, env, phase, err, calls, netlist, created, destroyed, closes,
                   args, replies, out, shared, query, pc>>

NextAlias ==
    \/ Construct
    \/ DoAnalyze
    \/ DoCompElements
    \/ DoClose
    \/ DoKeepSample
    \/ DoMutateReturned

SpecAlias == InitAlias /\ [][NextAlias]_vars

\* ------------------------------------------------- close from two threads
\* thread t evaluates "self._circuit_ptr is not None"
CloseTest(t) ==
    /\ phase = "held"
    /\ pc[t] = "idle"
    /\ pc' = [pc EXCEPT ![t] = IF h.circuit_ptr # NoPtr THEN "calling" ELSE "done"]
    /\ closes' = closes + 1
    /\ calls' = << >>
    /\ err' = "none"
    /\ lastOp' = "close"
    /\ UNCHANGED <<experiment, lib_path, env, h, phase, sample, value, netlist, created, destroyed,
                   args, replies, out, shared, kept, query>>

\* thread t calls destroy_circuit with the attributes as they are now; the
\* interpreter lock is released while the foreign function runs
CloseDestroy(t) ==
    /\ pc[t] = "calling"
    /\ \E c \in {Call("destroy_circuit", h.circuit_ptr, <<h.vec_pos, h.chunk_pos>>)} :
        /\ calls' = <<c>>
        /\ destroyed' = Append(destroyed, c)
    /\ pc' = [pc EXCEPT ![t] = "returned"]
    /\ UNCHANGED <<experiment, lib_path, env, h, phase, lastOp, err, sample, value, netlist, created,
                   closes, args, replies, out, shared, kept, query>>

\* thread t assigns self._circuit_ptr = None
CloseClear(t) ==
    /\ pc[t] = "returned"
    /\ h' = [h EXCEPT !.circuit_ptr = NoPtr]
    /\ pc' = [pc EXCEPT ![t] = "done"]
    /\ UNCHANGED <<experiment, lib_path, env, phase, lastOp, err, calls, sample, value, netlist,
                   created, destroyed, closes, args, replies, out, shared, kept, query>>

NextThreads ==
    \/ Construct
    \/ \E t \in Threads : CloseTest(t)
    \/ \E t \in Threads : CloseDestroy(t)
    \/ \E t \in Threads : CloseClear(t)

SpecThreads == Init /\ [][NextThreads]_vars

\* ------------------------------------------------------------ properties
\* the build succeeded: create_circuit answered a non-NULL pointer
Built == created.ptr # NoPtr

\* _create ran (the constructor got past its argument checks and the library)
CreateRan == phase # "none" /\ h.circuit_ptr # Unset

\* the destroy_circuit call that releases what create_circuit answered
ExpectedDestroy == Call("destroy_circuit", created.ptr, <<created.vec_pos, created.chunk_pos>>)

Closers == {"close", "exit", "del"}

IsGround(e) == Heap[e].ModelID = "Ground Component"

NotGround(e) == ~IsGround(e)

\* the identities of the heap that have no entry in the element code mapping
NoCodeIDs == {"Buzzer"}

HasNoCode(e) == Heap[e].ModelID \in NoCodeIDs

\* the input components that are not ground, in input order
NonGroundInput == SelectSeq(experiment.Elements, NotGround)

RECURSIVE ConcatProps(_)
\* the property blocks of a sequence of components, one after the other
ConcatProps(es) == IF es = << >> THEN << >> ELSE ToPhyEngineElement(es[1]).props \o ConcatProps(Tail(es))

RECURSIVE SumArity(_)
\* sum(property_arity(code) for code in codes if code != 0)
SumArity(codes) ==
    IF codes = << >> THEN 0
    ELSE (IF codes[1] # 0 THEN ELEMENT_PROPS[codes[1]] ELSE 0) + SumArity(Tail(codes))

\* C1: for a successfully built handle, over any series of close calls (close,
\* __exit__, __del__) destroy_circuit is invoked exactly once, by the first
\* close, with the pointer and the two position buffers create_circuit
\* returned; every later close makes no foreign call and raises nothing.
C1_CloseReleasesExactlyOnce ==
    (Built /\ closes >= 1) =>
        /\ destroyed = <<ExpectedDestroy>>
        /\ (lastOp \in Closers /\ closes = 1) => (calls = <<ExpectedDestroy>> /\ err = "none")
        /\ (lastOp \in Closers /\ closes >= 2) => (calls = << >> /\ err = "none")

C1_Witness == Built /\ closes >= 3 /\ lastOp = "close" /\ Len(destroyed) = 1

\* C2: once close has run on a handle, analyze and a read of comp_elements
\* fail with HandleClosed and make no foreign call.
C2_ClosedHandleRejectsEveryOperation ==
    (Built /\ closes >= 1 /\ lastOp \in {"analyze", "comp_elements"}) =>
        (err = "HandleClosed" /\ calls = << >>)

\* C3: through the scoped idiom, after a successful build close has run by
\* the time the scope is left, whether analyze returned a sample or failed
\* at any step: destroy_circuit has been invoked exactly once.
C3_ScopeAlwaysReleases ==
    (lastOp = "scoped" /\ Built) =>
        /\ destroyed = <<ExpectedDestroy>>
        /\ calls[Len(calls)] = ExpectedDestroy
        /\ h.circuit_ptr = NoPtr

C3_Witness ==
    /\ lastOp = "scoped"
    /\ Built
    /\ err = "NativeCallFailure"
    /\ Len(calls) >= 4
    /\ Len(destroyed) = 1

\* C4: when the build fails for any reason, the handle stores no circuit
\* pointer and destroy_circuit is never invoked for it, neither by close
\* nor by __del__.
C4_FailedBuildOwnsNothing ==
    (phase # "none" /\ ~Built) =>
        /\ h.circuit_ptr \in {Unset, NoPtr}
        /\ destroyed = << >>
        /\ \A i \in 1..Len(calls) : ~IsDestroy(calls[i])

C4_Witness ==
    /\ ~Built
    /\ created.vec_pos # NoPtr
    /\ lastOp = "del"
    /\ closes >= 2

\* C5 (as claimed): if the input contains a component whose identity has no
\* engine code, build raises UnsupportedElement and create_circuit is never
\* called.
C5_UnsupportedAlwaysReported ==
    (lastOp = "construct" /\ CreateRan /\ \E i \in 1..Len(experiment.Elements) : HasNoCode(experiment.Elements[i]))
        => (err = "UnsupportedElement" /\ calls = << >>)

\* the first component of the input whose conversion raises
FirstFailing ==
    CHOOSE i \in 1..Len(experiment.Elements) :
        /\ ToPhyEngineElement(experiment.Elements[i]).err # "none"
        /\ \A j \in 1..(i - 1) : ToPhyEngineElement(experiment.Elements[j]).err = "none"

\* C5 (amended): if the input contains a component whose identity has no
\* engine code, build fails, create_circuit is never called and nothing is
\* stored in the handle; the error is UnsupportedElement when every component
\* before the first unsupported one converts, and otherwise the property
\* extraction error of the first component that fails.
C5_UnsupportedFailsBuild ==
    (lastOp = "construct" /\ CreateRan /\ \E i \in 1..Len(experiment.Elements) : HasNoCode(experiment.Elements[i]))
        => /\ calls = << >>
           /\ h = FreshHandle
           /\ err # "none"
           /\ err = (IF HasNoCode(experiment.Elements[FirstFailing]) THEN "UnsupportedElement"
                     ELSE ToPhyEngineElement(experiment.Elements[FirstFailing]).err)
           /\ err \in {"UnsupportedElement", "MissingProperty", "InvalidPropertyType", "InvalidProperty"}

C5_Witness ==
    /\ lastOp = "construct"
    /\ CreateRan
    /\ Len(experiment.Elements) >= 2
    /\ HasNoCode(experiment.Elements[Len(experiment.Elements)])
    /\ err = "UnsupportedElement"

\* C6 (as claimed): after a successful build the length of the retained
\* component list equals the component count create_circuit reported.
C6_RetainedLengthIsReportedCount ==
    (lastOp = "construct" /\ Built) => Len(h.comp_elements) = created.comp_size

\* C6 (amended): after a successful build the handle keeps the reported
\* count, and the retained list has min(reported count, number of non-ground
\* input components) entries: it is truncated to the count, never extended.
C6_RetainedLengthIsMinOfCountAndInput ==
    (lastOp = "construct" /\ Built) =>
        /\ h.comp_size = created.comp_size
        /\ Len(h.comp_elements) = Min(created.comp_size, Len(NonGroundInput))
        /\ Len(h.comp_codes) = Len(h.comp_elements)

C6_Witness ==
    /\ lastOp = "construct"
    /\ Built
    /\ created.comp_size >= 1
    /\ created.comp_size < Len(NonGroundInput)

\* C7: for every non-empty input that builds, the element codes passed to
\* create_circuit have one entry per input component, in input order, ground
\* components as code 0, and the ground components add nothing to the
\* properties.
C7_OneCodePerComponent ==
    \A k \in 1..Len(calls) : IsCreate(calls[k]) =>
        /\ Len(calls[k].args.ele_arr) = Len(experiment.Elements)
        /\ calls[k].args.ele_size = Len(experiment.Elements)
        /\ \A i \in 1..Len(experiment.Elements) :
            /\ calls[k].args.ele_arr[i] = ToPhyEngineElement(experiment.Elements[i]).code
            /\ calls[k].args.ele_arr[i] = 0 <=> IsGround(experiment.Elements[i])
        /\ netlist.properties = ConcatProps(NonGroundInput)

C7_Witness ==
    /\ lastOp = "construct"
    /\ Built
    /\ Len(experiment.Elements) = 3
    /\ IsGround(experiment.Elements[2])
    /\ calls[1].args.ele_arr[2] = 0
    /\ netlist.properties # << >>

\* a is a prefix of b
IsPrefixOf(a, b) == Len(a) <= Len(b) /\ \A i \in 1..Len(a) : a[i] = b[i]

\* C8: the retained list is the subsequence of the non-ground input
\* components, in input order, cut to a prefix by the reported count; a
\* ground component is never in it nor a key of any mapping of a sample.
C8_RetainedIsNonGroundPrefix ==
    /\ Built =>
        /\ IsPrefixOf(h.comp_elements, NonGroundInput)
        /\ Len(h.comp_elements) <= created.comp_size
        /\ \A i \in 1..Len(h.comp_elements) : NotGround(h.comp_elements[i])
    /\ \A e \in (DOMAIN sample.pin_voltage) \cup (DOMAIN sample.pin_digital)
                \cup (DOMAIN sample.branch_current) \cup Range(sample.elements) :
        NotGround(e) /\ e \in Range(NonGroundInput)

C8_Witness ==
    /\ lastOp = "analyze"
    /\ err = "none"
    /\ \E i \in 1..Len(experiment.Elements) : IsGround(experiment.Elements[i])
    /\ Cardinality(DOMAIN sample.pin_voltage) = 2
    /\ created.comp_size = 2
    /\ Len(NonGroundInput) = 2

\* the offset of the property block of the i-th retained component
BlockStart(codes, i) == SumArity(SubSeq(codes, 1, i - 1))

\* C9: whenever create_circuit is called, the properties built from the input
\* have sum(property_arity(code)) entries over the non-zero element codes and
\* are the per-component blocks, concatenated in component order.
C9_PropertiesMatchArities ==
    \A k \in 1..Len(calls) : IsCreate(calls[k]) =>
        /\ Len(netlist.properties) = SumArity(calls[k].args.ele_arr)
        /\ \A i \in 1..Len(NonGroundInput) :
            SubSeq(netlist.properties, BlockStart(netlist.comp_codes, i) + 1,
                   BlockStart(netlist.comp_codes, i + 1))
                = ToPhyEngineElement(NonGroundInput[i]).props
        /\ calls[k].args.prop_arr = (IF netlist.properties = << >> THEN <<0>> ELSE netlist.properties)

C9_Witness ==
    /\ lastOp = "construct"
    /\ Built
    /\ Len(netlist.properties) = 4
    /\ Len(experiment.Elements) = 3
    /\ netlist.element_codes[1] = 0
    /\ netlist.element_codes[2] = 15

\* C10: for every component whose identity has an engine code, the number of
\* properties extracted equals the arity the table declares for the code; a
\* count that differs ends the build with ArityMismatch before create_circuit,
\* it is never truncated or padded.
C10_ExtractedCountIsArity ==
    /\ \A i \in 1..Len(experiment.Elements) :
        LET r == ToPhyEngineElement(experiment.Elements[i]) IN
        r.err = "none" => (r.code \in DOMAIN ELEMENT_PROPS /\ Len(r.props) = ELEMENT_PROPS[r.code])
    /\ (lastOp = "construct" /\ CreateRan) =>
        /\ err # "ArityMismatch"
        /\ \A i \in 1..Len(netlist.comp_elements) :
            BlockStart(netlist.comp_codes, i + 1) - BlockStart(netlist.comp_codes, i)
                = Len(ToPhyEngineElement(netlist.comp_elements[i]).props)
        /\ netlist.err = "none" => Len(netlist.properties) = BlockStart(netlist.comp_codes, Len(netlist.comp_codes) + 1)

C10_Witness ==
    /\ lastOp = "construct"
    /\ Built
    /\ \E i \in 1..Len(netlist.comp_codes) : netlist.comp_codes[i] = 15
    /\ \E i \in 1..Len(netlist.comp_codes) : netlist.comp_codes[i] = 1
    /\ Len(netlist.properties) >= 4

\* ---------------------------------------------------------------- C11
\* the position (from 0) of component x in the input sequence
InputPos(x) == CHOOSE i \in 0..(Len(experiment.Elements) - 1) : experiment.Elements[i + 1] = x

\* both endpoints of wire w are components of the input sequence
Resolves(w) ==
    /\ w.Source.element_self \in Range(experiment.Elements)
    /\ w.Target.element_self \in Range(experiment.Elements)

\* the wires of the experiment whose endpoints both resolve, in order
ResolvedWires == SelectSeq(experiment.Wires, Resolves)

\* the k-th quadruple of the flat wire sequence
Quad(flat, k) == SubSeq(flat, 4 * (k - 1) + 1, 4 * k)

\* the flat wire sequence was built (the element loop raised nothing)
WiresBuilt == CreateRan /\ netlist.err = "none"

\* C11: in every build that reaches the wire loop, the quadruple of each
\* wire whose two endpoints resolve holds the positions of the endpoint
\* components in the input sequence, grounds counted, and the two pins.
C11_QuadruplesCarryInputPositions ==
    WiresBuilt =>
        \A k \in 1..Len(ResolvedWires) :
            /\ 4 * k <= Len(netlist.wires_flat)
            /\ Quad(netlist.wires_flat, k) =
                   <<InputPos(ResolvedWires[k].Source.element_self),
                     ResolvedWires[k].Source.pin_label,
                     InputPos(ResolvedWires[k].Target.element_self),
                     ResolvedWires[k].Target.pin_label>>

\* a wire between two components that follow a ground: the input
\* positions (1, 2) differ from the retained-list positions (0, 1)
C11_Witness ==
    /\ WiresBuilt
    /\ Len(experiment.Elements) = 3
    /\ IsGround(experiment.Elements[1])
    /\ Len(ResolvedWires) = 1
    /\ netlist.wires_flat = <<1, 0, 2, 1>>
    /\ netlist.comp_elements = <<2, 3>>

\* ---------------------------------------------------------------- C12
\* what the element loop alone leaves as the exception of the build
ElementLoopErr ==
    IF experiment.Elements = << >> THEN "EmptyCircuit"
    ELSE IF \E i \in 1..Len(experiment.Elements) : ToPhyEngineElement(experiment.Elements[i]).err # "none"
         THEN ToPhyEngineElement(experiment.Elements[FirstFailing]).err
    ELSE "none"

\* C12: a wire with an endpoint outside the input sequence is left out and
\* raises nothing: the build ends as the element loop alone decides, and
\* the flat wire sequence holds one quadruple per resolving wire, in the
\* order of the wires, with the pins of that wire.
C12_UnresolvedWireIsDropped ==
    CreateRan =>
        /\ netlist.err = ElementLoopErr
        /\ netlist.err = "none" =>
              /\ Len(netlist.wires_flat) = 4 * Len(ResolvedWires)
              /\ \A k \in 1..Len(ResolvedWires) :
                    /\ Quad(netlist.wires_flat, k)[2] = ResolvedWires[k].Source.pin_label
                    /\ Quad(netlist.wires_flat, k)[4] = ResolvedWires[k].Target.pin_label

\* an unresolved wire ahead of a resolving one: the build goes on to
\* create_circuit with the quadruple of the resolving wire alone
C12_Witness ==
    /\ WiresBuilt
    /\ Len(experiment.Wires) = 2
    /\ ~Resolves(experiment.Wires[1])
    /\ Resolves(experiment.Wires[2])
    /\ Len(netlist.wires_flat) = 4
    /\ Len(calls) = 1
    /\ IsCreate(calls[1])
    /\ calls[1].args.wire_arr = netlist.wires_flat

\* ---------------------------------------------------------------- C13
\* C13: a build on an experiment whose component sequence is empty raises
\* EmptyCircuit and makes no foreign call.
C13_EmptyCircuitFailsBeforeCreate ==
    (CreateRan /\ experiment.Elements = << >>) =>
        /\ err = "EmptyCircuit"
        /\ calls = << >>
        /\ created = NoAnswer

C13_Witness ==
    /\ CreateRan
    /\ experiment.Elements = << >>
    /\ lastOp = "construct"
    /\ err = "EmptyCircuit"
    /\ experiment.Wires # << >>

\* ---------------------------------------------------------------- C14
\* an analyze ran on a handle that holds a circuit
Analysed == lastOp = "analyze" /\ h.circuit_ptr # NoPtr

\* the names of the analysis kinds and their codes
KindNames ==
    (<<"O", "P">> :> OP) @@ (<<"D", "C">> :> DC) @@ (<<"A", "C">> :> AC) @@
    (<<"A", "C", "O", "P">> :> ACOP) @@ (<<"T", "R">> :> TR) @@ (<<"T", "R", "O", "P">> :> TROP)

\* the kind is one of OP, DC, AC, ACOP, TR, TROP: a code 0..5 or a name
RecognizedKind(t) ==
    \/ t.t = "int" /\ t.v \in 0..5
    \/ t.t = "str" /\ Upper(Strip(t.s)) \in DOMAIN KindNames

\* the code of a recognized kind
KindOf(t) == IF t.t = "int" THEN t.v ELSE KindNames[Upper(Strip(t.s))]

\* the foreign functions called by the last operation
Invoked == {calls[i].fn : i \in 1..Len(calls)}

\* C14: an analyze whose kind is not one of OP, DC, AC, ACOP, TR, TROP,
\* given as a string or as an integer, raises InvalidAnalysisKind and makes
\* no foreign call.
C14_UnrecognizedKindIsRejected ==
    (Analysed /\ ~RecognizedKind(args.analyze_type)) =>
        /\ err = "InvalidAnalysisKind"
        /\ calls = << >>

\* ---------------------------------------------------------------- C15
\* an analyze of kind AC or ACOP that was given no angular frequency
FrequencyMissing ==
    /\ Analysed
    /\ RecognizedKind(args.analyze_type)
    /\ KindOf(args.analyze_type) \in {AC, ACOP}
    /\ args.ac_omega = PyNone

NoFrequencyRun == Invoked \cap {"circuit_set_ac_omega", "circuit_analyze", "circuit_sample"} = {}

C16_FailedCallEndsAnalyze ==
    Analysed =>
        /\ \A i \in 1..Len(calls) :
              replies[i] # 0 => (i = Len(calls) /\ err = "NativeCallFailure" /\ sample = NoSample)
        /\ \A i, j \in 1..Len(calls) : calls[i].fn = calls[j].fn => i = j

\* the clock advance fails after the kind, the transient parameters and the
\* analysis went through
C16_Witness ==
    /\ Analysed
    /\ Len(calls) = 4
    /\ calls[4].fn = "circuit_digital_clk"
    /\ replies = <<0, 0, 0, 1>>
    /\ err = "NativeCallFailure"

\* ---------------------------------------------------------------- C17
\* C17: an analyze step, whether it returns or raises, leaves the pointer,
\* the position buffers, the component count and the retained lists as they
\* were and releases nothing, so the handle still accepts analyze; a close
\* that follows an analyze on a built handle calls destroy_circuit once,
\* with what create_circuit answered.
C17_AnalyzeKeepsHandleBuilt ==
    [][/\ (phase = "held" /\ lastOp' = "analyze") =>
            /\ h' = h
            /\ phase' = "held"
            /\ destroyed' = destroyed
            /\ created' = created
            /\ \A i \in 1..Len(calls') : ~IsDestroy(calls'[i])
       /\ (Analysed /\ lastOp' = "close") =>
            /\ calls' = <<ExpectedDestroy>>
            /\ destroyed' = <<ExpectedDestroy>>
            /\ h'.circuit_ptr = NoPtr]_vars

\* a failed analyze on a handle that still holds its circuit
C17_Witness ==
    /\ Analysed
    /\ err = "NativeCallFailure"
    /\ phase = "held"
    /\ h.circuit_ptr = created.ptr
    /\ Len(h.comp_elements) = 2
    /\ destroyed = << >>

\* ---------------------------------------------------------------- C18
\* the last operation reached circuit_sample
Sampled == Analysed /\ calls # << >> /\ calls[Len(calls)].fn = "circuit_sample"

\* the arguments of that circuit_sample call
SampleArgs == calls[Len(calls)].args

\* the entries of buf at the 0-based indices lo .. hi - 1
Entries(buf, lo, hi) == [j \in 1..(hi - lo) |-> buf[lo + j]]

\* C18: every circuit_sample call is handed three offset buffers of
\* comp_size + 1 entries, comp_size being what create_circuit reported; when
\* analyze returns, the three lists of the i-th retained component are the
\* entries [ord[i], ord[i+1]) of the voltage, digital and current buffers.
C18_OffsetsDelimitSlices ==
    Sampled =>
        /\ SampleArgs[3] = created.comp_size
        /\ SampleArgs[5] = created.comp_size + 1
        /\ SampleArgs[7] = created.comp_size + 1
        /\ SampleArgs[9] = created.comp_size + 1
        /\ err = "none" =>
              \A i \in 1..Len(h.comp_elements) :
                  /\ sample.pin_voltage[h.comp_elements[i]] =
                         Entries(out.voltage, out.voltage_ord[i], out.voltage_ord[i + 1])
                  /\ sample.pin_digital[h.comp_elements[i]] =
                         Entries(out.digital, out.digital_ord[i], out.digital_ord[i + 1])
                  /\ sample.branch_current[h.comp_elements[i]] =
                         Entries(out.current, out.current_ord[i], out.current_ord[i + 1])

\* two retained components: the second one's lists start where the first
\* one's end
C18_Witness ==
    /\ Sampled
    /\ err = "none"
    /\ h.comp_elements = <<2, 3>>
    /\ out.voltage_ord = <<0, 2, 4>>
    /\ sample.pin_voltage[3] = <<103, 104>>
    /\ sample.branch_current[2] = <<201, 202>>

\* ---------------------------------------------------------------- C19
RECURSIVE SeqSum(_)
SeqSum(s) == IF s = << >> THEN 0 ELSE s[1] + SeqSum(Tail(s))

\* the pins of all retained components
PinSum == SeqSum([i \in 1..Len(h.comp_elements) |-> Heap[h.comp_elements[i]].pins])

\* the table's branch counts of all retained components
BranchSum ==
    SeqSum([i \in 1..Len(h.comp_codes) |->
               IF h.comp_codes[i] \in DOMAIN ELEMENT_BRANCHES THEN ELEMENT_BRANCHES[h.comp_codes[i]] ELSE 0])

\* C19 as stated: the current buffer of every circuit_sample call has the
\* capacity max(sum of the branch counts, total pin count); the voltage and
\* digital buffers have the total pin count, at least 1.
C19_CurrentCapacityIsMaxOfBranchesAndPins ==
    Sampled =>
        /\ SampleArgs[6] = Max(BranchSum, PinSum)
        /\ SampleArgs[6] >= PinSum
        /\ SampleArgs[4] = Max(1, PinSum)
        /\ SampleArgs[8] = Max(1, PinSum)

\* C19: the current buffer of every circuit_sample call has the capacity
\* max(1, sum of the branch counts, total pin count), never below the total
\* pin count; the voltage and digital buffers have max(1, total pin count).
C19_CapacitiesAreClampedToOne ==
    Sampled =>
        /\ SampleArgs[6] = Max(1, Max(BranchSum, PinSum))
        /\ SampleArgs[6] >= PinSum
        /\ SampleArgs[4] = Max(1, PinSum)
        /\ SampleArgs[8] = Max(1, PinSum)

\* a lone resistor: no branch in the table, two pins
C19_Witness ==
    /\ Sampled
    /\ h.comp_elements = <<2>>
    /\ BranchSum = 0
    /\ SampleArgs[6] = 2

\* ---------------------------------------------------------------- C20
\* analyze returned a sample
Succeeded == Sampled /\ err = "none"

\* the voltage offsets the engine wrote are the running pin counts
PinAligned ==
    \A i \in 1..Len(h.comp_elements) :
        out.voltage_ord[i + 1] - out.voltage_ord[i] = Heap[h.comp_elements[i]].pins

StageOf(fn) ==
    CASE fn = "circuit_set_analyze_type" -> 1
      [] fn \in {"circuit_set_tr", "circuit_set_ac_omega"} -> 2
      [] fn = "circuit_analyze" -> 3
      [] fn = "circuit_digital_clk" -> 4
      [] fn = "circuit_sample" -> 5
      [] OTHER -> 0

\* the call of fn in the last operation answered 0
Succeeded0(fn) == \E i \in 1..Len(calls) : calls[i].fn = fn /\ replies[i] = 0

\* C24: the foreign calls of an analyze come in the order kind, kind
\* parameters, analysis, clock, sample, each at most once and the kind
\* first; the sample call follows an analysis that answered 0, the clock
\* call is made only when digital_clk was asked for and the analysis
\* answered 0, and a sample call with digital_clk follows the clock call.
C24_CallsFollowFixedOrder ==
    Analysed =>
        /\ \A i \in 1..Len(calls) : StageOf(calls[i].fn) >= 1
        /\ \A i, j \in 1..Len(calls) : i < j => StageOf(calls[i].fn) < StageOf(calls[j].fn)
        /\ calls # << >> => calls[1].fn = "circuit_set_analyze_type"
        /\ "circuit_sample" \in Invoked => Succeeded0("circuit_analyze")
        /\ "circuit_digital_clk" \in Invoked => (args.digital_clk /\ Succeeded0("circuit_analyze"))
        /\ ("circuit_sample" \in Invoked /\ args.digital_clk) => Succeeded0("circuit_digital_clk")

C24_Witness ==
    /\ Analysed
    /\ err = "none"
    /\ Len(calls) = 5
    /\ [i \in 1..5 |-> calls[i].fn] =
          <<"circuit_set_analyze_type", "circuit_set_tr", "circuit_analyze", "circuit_digital_clk",
            "circuit_sample">>

\* ---------------------------------------------------------------- C25
\* the kind the engine was given and accepted
KindAccepted == Analysed /\ calls # << >> /\ replies[1] = 0

\* the code handed to circuit_set_analyze_type
KindGiven == KindOf(args.analyze_type)

C26_NoUseAfterRelease ==
    [][/\ \A i \in 1..Len(calls') :
            /\ ~IsCreate(calls'[i]) => (calls'[i].ptr = created'.ptr /\ created'.ptr # NoPtr)
            /\ IsDestroy(calls'[i]) => i = Len(calls')
       /\ destroyed # << >> => calls' = << >>
       /\ h.circuit_ptr = NoPtr => h'.circuit_ptr = NoPtr]_vars

\* an analyze on a released handle
C26_Witness ==
    /\ lastOp = "analyze"
    /\ err = "HandleClosed"
    /\ Len(destroyed) = 1
    /\ calls = << >>

\* ---------------------------------------------------------------- C28
\* the engine code of a component, by its identity and the table of codes
CodeOfHeld(e) == ToPhyEngineElement(e).code

\* C28: after a successful build the two retained lists have the same
\* length, the i-th code is the code of the i-th component, and the length
\* does not exceed the reported component count, so the offsets i and i + 1
\* read for the i-th component exist among the comp_size + 1 entries.
C28_RetainedListsAgreeAndFit ==
    (CreateRan /\ phase = "held") =>
        /\ Len(h.comp_elements) = Len(h.comp_codes)
        /\ \A i \in 1..Len(h.comp_elements) :
              /\ h.comp_codes[i] = CodeOfHeld(h.comp_elements[i])
              /\ h.comp_codes[i] # 0
              /\ i + 1 <= h.comp_size + 1
        /\ Len(h.comp_elements) <= created.comp_size
        /\ h.comp_size = created.comp_size

\* the engine reports fewer components than the build retained
C28_Witness ==
    /\ CreateRan
    /\ phase = "held"
    /\ Len(netlist.comp_codes) = 3
    /\ created.comp_size = 2
    /\ Len(h.comp_codes) = 2

\* ---------------------------------------------------------------- C29
CreateCalled == CreateRan /\ calls # << >> /\ IsCreate(calls[1])

\* C29 as stated: create_circuit is handed the number of resolving wires as
\* its wire count and the number of input components as its code count.
C29_WireCountIsResolvedWires ==
    CreateCalled =>
        /\ calls[1].args.wire_size = Len(ResolvedWires)
        /\ calls[1].args.ele_size = Len(experiment.Elements)

\* C29: create_circuit is handed the length of the flat wire sequence, four
\* times the number of resolving wires, as its wire count and the number of
\* input components as its code count.
C29_WireCountIsFlatLength ==
    CreateCalled =>
        /\ calls[1].args.wire_size = 4 * Len(ResolvedWires)
        /\ calls[1].args.wire_size = Len(calls[1].args.wire_arr)
        /\ calls[1].args.ele_size = Len(experiment.Elements)

C29_Witness ==
    /\ CreateCalled
    /\ Len(ResolvedWires) = 1
    /\ Len(experiment.Wires) = 2
    /\ calls[1].args.wire_size = 4
    /\ calls[1].args.ele_size = 3

\* ---------------------------------------------------------------- C30
\* C30: an analyze that raises InvalidAnalysisKind or MissingParameter has
\* made no foreign call.
C30_LocalFailureBeforeAnyCall ==
    (Analysed /\ err \in {"InvalidAnalysisKind", "MissingParameter"}) => calls = << >>

Resolved == lastOp = "resolve"

\* the file an override names, and whether it exists
ExplicitFile == ResolvePath(lib_path)

EnvFile == ResolvePath(env.PHYSICSLAB_PHYENGINE_LIB)

\* the default file of each candidate directory, in directory order
DefaultFiles ==
    [i \in 1..Len(DefaultSearchPaths) |-> DefaultSearchPaths[i] \o "/" \o DefaultLibNames(env.sysname)[1]]

DefaultFound == {i \in DOMAIN DefaultFiles : DefaultFiles[i] \in env.files}

FirstDefault == DefaultFiles[CHOOSE i \in DefaultFound : \A j \in DefaultFound : i <= j]

\* the source that decides: the explicit path, else the variable, else the
\* default names
ResolvesInOrder ==
    /\ (lib_path # "" /\ ExplicitFile \in env.files) => (err = "none" /\ value = <<ExplicitFile>>)
    /\ (lib_path = "" /\ env.PHYSICSLAB_PHYENGINE_LIB # "" /\ EnvFile \in env.files) =>
          (err = "none" /\ value = <<EnvFile>>)
    /\ (lib_path = "" /\ env.PHYSICSLAB_PHYENGINE_LIB = "" /\ DefaultFound # {}) =>
          (err = "none" /\ value = <<FirstDefault>>)

\* C22 as stated: the library is the explicit path, else the one of the
\* environment variable, else the first existing default candidate, and a
\* lookup that fails raises EngineNotAvailable.
C22_FailureIsEngineNotAvailable == Resolved => (ResolvesInOrder /\ (err # "none" => err = "EngineNotAvailable"))

\* C22: the library is the explicit path, else the one of the environment
\* variable, else the first existing default candidate; an explicit path or
\* a variable naming a missing file raises FileNotFoundError without a look
\* at the later sources, and EngineNotAvailable is raised when neither is
\* given and no default candidate exists.
C22_MissingOverrideIsFileNotFound ==
    Resolved =>
        /\ ResolvesInOrder
        /\ (lib_path # "" /\ ExplicitFile \notin env.files) => err = "FileNotFoundError"
        /\ (lib_path = "" /\ env.PHYSICSLAB_PHYENGINE_LIB # "" /\ EnvFile \notin env.files) =>
              err = "FileNotFoundError"
        /\ (lib_path = "" /\ env.PHYSICSLAB_PHYENGINE_LIB = "" /\ DefaultFound = {}) =>
              err = "EngineNotAvailable"

\* no override and two default candidates: the first directory wins
C22_Witness ==
    /\ Resolved
    /\ lib_path = ""
    /\ env.PHYSICSLAB_PHYENGINE_LIB = ""
    /\ DefaultFound = {1, 2}
    /\ value = <<"pkg/native/libphyengine.so">>

\* ---------------------------------------------------------------- C23
\* the published number of properties of each code
PublishedProps ==
    (0 :> 0) @@ (1 :> 1) @@ (2 :> 1) @@ (3 :> 1) @@ (4 :> 1) @@ (12 :> 1) @@ (14 :> 1) @@ (15 :> 3) @@
    (54 :> 0) @@ (200 :> 1) @@ (201 :> 0) @@ [c \in 202..212 |-> 0] @@ [c \in 220..228 |-> 0]

\* the published number of branches, where one is published
PublishedBranches == (4 :> 1) @@ (14 :> 2) @@ (15 :> 2)

\* the published code of the components of the heap
PublishedCode ==
    ("Ground Component" :> 0) @@ ("Resistor" :> 1) @@ ("Battery Source" :> 4) @@
    ("Mutual Inductor" :> 15) @@ ("Logic Input" :> 200)

\* a conversion gave the published code and as many properties as published
ConvertsAsPublished ==
    (lastOp = "convert" /\ err = "none") =>
        /\ value[2] = PublishedCode[Heap[value[1]].ModelID]
        /\ value[3] = PublishedProps[value[2]]

\* the tables hold the published entry of code c
LooksUpAsPublished(c) ==
    /\ value[1] = PublishedProps[c]
    /\ c \in DOMAIN PublishedBranches => value[2] = PublishedBranches[c]

\* C23 as stated: the tables hold the published property count of every
\* published code, 210 among the gate codes, and the published branch
\* counts of the codes 4, 14 and 15.
C23_TableHoldsEveryPublishedCode ==
    /\ ConvertsAsPublished
    /\ (lastOp = "lookup" /\ query \in DOMAIN PublishedProps) => LooksUpAsPublished(query)

\* C23: the tables hold the published property count of every published
\* code but 210, which has no entry, and the published branch counts of
\* the codes 4, 14 and 15.
C23_TableHoldsPublishedCodesBut210 ==
    /\ ConvertsAsPublished
    /\ (lastOp = "lookup" /\ query \in DOMAIN PublishedProps \ {210}) => LooksUpAsPublished(query)
    /\ (lastOp = "lookup" /\ query = 210) => value[1] = -1

C23_Witness ==
    /\ lastOp = "lookup"
    /\ query = 15
    /\ value = <<3, 2>>

\* ---------------------------------------------------------------- C27
\* C27: destroy_circuit is never called twice with one circuit pointer,
\* also when two threads run close on one handle.
C27_DestroyedOncePerPointer ==
    \A i, j \in 1..Len(destroyed) : i # j => destroyed[i].ptr # destroyed[j].ptr

====
